---- MODULE Spec2Model ----
(***************************************************************************)
(* Model of novus-cura: the analysis client (analyzePhoto, six versions in *)
(* src/services/geminiService.ts and src/unnamed/part_000..002) and the    *)
(* photo pipeline of the App component (four versions in src/App.tsx,      *)
(* src/unnamed/part_003 and src/unnamed/part_004).                         *)
(***************************************************************************)
EXTENDS Integers, Sequences, FiniteSets, TLC

(***************************************************************************)
(* JavaScript values.  A value is a record [t, n, s]: its type tag, its    *)
(* numeric payload and its string payload.                                 *)
(***************************************************************************)
Num(n) == [t |-> "number", n |-> n, s |-> ""]
Str(s) == [t |-> "string", n |-> 0, s |-> s]
Arr(n) == [t |-> "array", n |-> n, s |-> ""]
Undefined == [t |-> "undefined", n |-> 0, s |-> ""]
Null == [t |-> "null", n |-> 0, s |-> ""]
Obj == [t |-> "object", n |-> 0, s |-> ""]

\* x ?? d
Nullish(x, d) == IF x.t \in {"undefined", "null"} THEN d ELSE x

\* the falsy values among the ones modelled: undefined, null, 0, ""
Falsy(x) ==
    \/ x.t \in {"undefined", "null"}
    \/ x.t = "number" /\ x.n = 0
    \/ x.t = "string" /\ x.s = ""

\* x || d
OrElse(x, d) == IF Falsy(x) THEN d ELSE x

\* typeof x === 'number' ? x : d
NumberOr(x, d) == IF x.t = "number" THEN x ELSE d

\* Array.isArray(x) ? x : []
ArrayOr(x) == IF x.t = "array" THEN x ELSE Arr(0)

(***************************************************************************)
(* The six versions of analyzePhoto.                                       *)
(*   G3  src/services/geminiService.ts:33   retries any error, 3 attempts  *)
(*   G2  src/services/geminiService.ts:109  no retry, typeof mapping       *)
(*   G5  src/services/geminiService.ts:240  retries rate limits, 5 attempts*)
(*   P0  src/unnamed/part_000:27            no retry, spread mapping       *)
(*   P1  src/unnamed/part_001:29            retries 429/503, 3 attempts    *)
(*   P2  src/unnamed/part_002:9             no retry, typeof mapping       *)
(***************************************************************************)
Services == {"G3", "G2", "G5", "P0", "P1", "P2"}

\* the versions that take an attempt parameter and call themselves again
Retrying == {"G3", "G5", "P1"}

\* the versions that test the key before the try block and return at once
KeyGuarded == {"G2", "P0", "P2"}

\* the versions that test the key inside the try block (throw new Error)
KeyThrowing == {"G3", "P1"}

MAX_ATTEMPTS(v) == IF v = "G5" THEN 5 ELSE IF v \in {"G3", "P1"} THEN 3 ELSE 1

(***************************************************************************)
(* Errors: the status property and the marker substrings of the message.   *)
(***************************************************************************)
Err(status, marks) == [status |-> status, marks |-> marks]

NoError == Err(0, {"<none>"})

\* what generateContent can reject with
ApiErrors ==
    { Err(429, {"429"}), Err(0, {"429"}), Err(0, {"quota"}), Err(503, {"503"}),
      Err(403, {"403"}), Err(404, {"404"}), Err(0, {"SAFETY"}), Err(0, {}) }

MissingKeyError == Err(0, {"Missing API Key"})
ClientKeyError == Err(0, {"An API Key must be set"})
EmptyResponseError == Err(0, {"Empty response"})
SyntaxError == Err(0, {"Unexpected token"})
TypeError == Err(0, {"Cannot read properties of null"})

\* error?.message?.includes(sub)
includes(e, sub) == sub \in e.marks

(***************************************************************************)
(* Replies of the model: the text of the response.                         *)
(*   kind   "empty"    the empty string                                    *)
(*          "garbage"  text that is no JSON                                *)
(*          "null"     the JSON text null                                  *)
(*          "object"   a JSON object, obj holds its fields                 *)
(*   fenced            the text is wrapped in ```json ... ```              *)
(***************************************************************************)
TonalFields == {"exposure", "temp", "highlights", "shadows", "whites", "blacks", "contrast"}

Fields == {"rating", "reason", "keywords", "caption"} \cup TonalFields

\* a field of the reply that is a number everywhere it is present
FullObject(rating) ==
    [f \in Fields |->
        CASE f = "rating" -> rating
          [] f = "reason" -> Str("Sharp")
          [] f = "keywords" -> Arr(2)
          [] f = "caption" -> Str("A portrait")
          [] OTHER -> Num(1)]

\* a reply that carries nothing but a rating
BareObject(rating) == [f \in Fields |-> IF f = "rating" THEN rating ELSE Undefined]

ReplyRatings == {Num(0), Num(4), Str("5"), Null, Undefined, Obj}

NoObject == [f \in Fields |-> Undefined]

NoReply == [kind |-> "none", fenced |-> FALSE, obj |-> NoObject]

Replies ==
    { [kind |-> k, fenced |-> FALSE, obj |-> NoObject] : k \in {"empty", "garbage", "null"} }
    \cup { [kind |-> "object", fenced |-> fc, obj |-> FullObject(r)] :
              fc \in BOOLEAN, r \in ReplyRatings }
    \cup { [kind |-> "object", fenced |-> FALSE, obj |-> BareObject(r)] : r \in ReplyRatings }

\* text.replace(/^```json\s*/, '').replace(/\s*```$/, '').trim(): TRUE when the
\* text handed to JSON.parse still carries the fence
cleanJSON(v, reply) == IF v = "G5" THEN reply.fenced ELSE FALSE

\* the result object built from the parsed reply
Mapping(v, o) ==
    CASE v = "G3" ->
            [f \in Fields |->
                CASE f = "reason" -> Nullish(o[f], Str("Processed"))
                  [] f = "keywords" -> Nullish(o[f], Arr(0))
                  [] f = "caption" -> Nullish(o[f], Str(""))
                  [] OTHER -> Nullish(o[f], Num(0))]
      [] v \in {"G2", "P2"} ->
            [f \in Fields |->
                CASE f = "rating" -> NumberOr(o[f], Num(0))
                  [] f = "reason" -> OrElse(o[f], Str("Processed"))
                  [] f = "keywords" -> ArrayOr(o[f])
                  [] f = "caption" -> OrElse(o[f], Str(""))
                  [] OTHER -> OrElse(o[f], Num(0))]
      [] OTHER ->
            [f \in Fields |-> IF f = "contrast" THEN Nullish(o[f], Num(0)) ELSE o[f]]

\* the body of the try block after generateContent has resolved with reply:
\* [ok |-> TRUE, value |-> the analysis] or [ok |-> FALSE, error |-> what is thrown]
Thrown(e) == [ok |-> FALSE, error |-> e, value |-> NoObject]
\* a try block that loses the parsed analysis
Returned_Dropped(a) == [ok |-> TRUE, error |-> NoError, value |-> NoObject]

Returned(a) == [ok |-> TRUE, error |-> NoError, value |-> a]

ParseReply(v, reply) ==
    IF reply.kind = "empty"
    THEN IF v \in {"G3", "P0", "P1"} THEN Thrown(EmptyResponseError) ELSE Thrown(SyntaxError)
    ELSE IF reply.kind = "garbage" \/ cleanJSON(v, reply) THEN Thrown(SyntaxError)
    ELSE IF reply.kind = "null" THEN Thrown(TypeError)
    ELSE Returned(Mapping(v, reply.obj))

\* the seven tonal values 0, no keywords
FailureObject(reason, caption) ==
    [f \in Fields |->
        CASE f = "reason" -> Str(reason)
          [] f = "keywords" -> Arr(0)
          [] f = "caption" -> Str(caption)
          [] OTHER -> Num(0)]

\* the object returned by the key test of G2, P0 and P2
MissingKeyResult(v) ==
    CASE v = "G2" -> FailureObject("MISSING API KEY", "")
      [] v = "P0" -> FailureObject("MISSING API KEY (Check Vercel Settings)", "")
      [] OTHER -> FailureObject("MISSING KEY", "")

\* a give-up object that keeps a tonal value of the schema's example
Sentinel_StaleTonal(v, e) ==
    [FailureObject("API_FAIL", "Analysis Failed") EXCEPT !["exposure"] = Num(1)]

\* the object returned by the catch block when it gives up
Sentinel(v, e) ==
    CASE v \in {"G3", "P1"} -> FailureObject("API_FAIL", "Analysis Failed")
      [] v = "G5" ->
            FailureObject("SYSTEM_FAILURE", "Analysis suspended due to system limits.")
      [] v = "P0" ->
            FailureObject(
                IF includes(e, "429") THEN "Quota Exceeded"
                ELSE IF includes(e, "404") THEN "Model Not Found"
                ELSE IF includes(e, "403") THEN "Invalid API Key"
                ELSE "AI Analysis Failed", "")
      [] v = "G2" ->
            FailureObject(
                IF includes(e, "SAFETY") THEN "Safety Block"
                ELSE IF includes(e, "503") THEN "Server Busy"
                ELSE IF includes(e, "429") THEN "Rate Limit (Too Fast)"
                ELSE IF includes(e, "403") THEN "Bad API Key"
                ELSE "AI Error", "")
      [] OTHER -> FailureObject("AI ERROR", "")

\* isRetryable (P1), isRateLimit (G5); G3 asks nothing of the error
isRetryable(v, e) ==
    CASE v = "G3" -> TRUE
      [] v = "P1" -> e.status = 429 \/ e.status = 503 \/ includes(e, "429")
      [] v = "G5" ->
            \/ e.status = 429
            \/ includes(e, "429")
            \/ includes(e, "exhausted")
            \/ includes(e, "quota")
      [] OTHER -> FALSE

\* a retry test that lets attempt MAX_ATTEMPTS retry once more
ShouldRetry_OffByOne(v, e, n) == isRetryable(v, e) /\ n <= MAX_ATTEMPTS(v)

\* the catch block's test before wait(...) and the recursive call
ShouldRetry(v, e, n) == isRetryable(v, e) /\ n < MAX_ATTEMPTS(v)

\* Math.random() * 1000, three samples of [0, 1000)
Jitters == {0, 500, 999}

Pow2(n) == IF n = 1 THEN 2 ELSE IF n = 2 THEN 4 ELSE IF n = 3 THEN 8 ELSE 16

\* a wait of the same length after every attempt
Backoff_Flat(v, n, jitter) == 2000 + jitter

\* the argument of wait(...) after failed attempt n
Backoff(v, n, jitter) == IF v = "G5" THEN Pow2(n) * 1000 + jitter ELSE 2000 * n

(***************************************************************************)
(* State of one top-level call analyzePhoto(base64Image).                  *)
(***************************************************************************)
VARIABLES
    svc,        \* the version of analyzePhoto that is running
    hasKey,     \* an API key is configured
    apc,        \* "enter", "calling", "catch", "waiting", "returned"
    attempt,    \* the attempt parameter of the running invocation
    entered,    \* how many invocations have entered their try block
    calls,      \* how many generateContent calls were made
    waits,      \* the arguments of the wait(...) calls, in order
    caught,     \* the errors the catch block received, in order
    reply,      \* the last response generateContent resolved with
    result      \* the value the promise resolved with

avars == <<svc, hasKey, apc, attempt, entered, calls, waits, caught, reply, result>>

\* State of the App component
VARIABLES
    app,            \* the version of the App
    activeProject,  \* [open, photos]; open = FALSE is null
    queue,          \* Q: the photos waiting for processNext
    isProcessing,   \* isProcessing (Q, L3, LA), isProcessingView (L4)
    isExporting,
    zip,            \* the zip.file calls of the export under way
    runs,           \* the async functions under way: processFiles, processNext
    made,           \* how many photos were given an id
    rest            \* "none"; "ended" after an analyzePhoto call has returned;
                    \* "rested" once a delay started after that return has elapsed

pvars == <<app, activeProject, queue, isProcessing, isExporting, zip, runs, made, rest>>

\* State of one call of the extraction step (extractMetadata / extractData)
VARIABLES
    exv,          \* the version of the App the step belongs to
    fileType,     \* "image" when file.type is image/jpeg, image/png or image/webp
    epc,          \* "parse", "waterfall", "done", "rejected"
    step,         \* the place in the list of preview strategies
    meta,         \* the metadata record at hand
    thumbBuffer,  \* the strategy whose bytes are held, "undefined" when none
    tried,        \* the calls made so far with their outcomes, in order
    extracted     \* the value the promise resolved with

evars == <<exv, fileType, epc, step, meta, thumbBuffer, tried, extracted>>

\* State of one call of sanitizeAndCompress
VARIABLES
    sanv,         \* the version of the App the function belongs to
    img,          \* [width, height] of the decoded image
    orientation,  \* the orientation argument
    hasCtx,       \* whether canvas.getContext('2d') gives a context
    encoded       \* the canvas that was encoded: [state, width, height]

svars == <<sanv, img, orientation, hasCtx, encoded>>

\* State of the naming of one zip entry by handleExportXMP
VARIABLES
    nv,           \* the version of the App the export belongs to
    fname,        \* photo.name, as its pieces between dots
    entry         \* the first argument of zip.file, as its pieces between dots

nvars == <<nv, fname, entry>>

\* State of one raw byte scan (strategy C of the extraction)
VARIABLES
    scv,          \* the version of the App the scan belongs to
    bytes,        \* the bytes of the file
    si,           \* the loop variable i, an offset from 0
    start,        \* start, -1 until a marker is found
    reads,        \* the offsets handed to view.getUint8 so far
    scpc,         \* "loop", "found", "caught", "done"
    scanned       \* the thumbBuffer the scan leaves: [state, bytes]

cvars == <<scv, bytes, si, start, reads, scpc, scanned>>

vars == <<avars, pvars, evars, svars, nvars, cvars>>

\* what a step of analyzePhoto leaves alone
notA == <<pvars, evars, svars, nvars, cvars>>

\* what a step of the App leaves alone
notP == <<avars, evars, svars, nvars, cvars>>

\* what a step of sanitizeAndCompress leaves alone
notS == <<avars, pvars, evars, nvars, cvars>>

\* what the naming of a zip entry leaves alone
notN == <<avars, pvars, evars, svars, cvars>>

\* what a step of the byte scan leaves alone
notC == <<avars, pvars, evars, svars, nvars>>

\* what a step of the extraction leaves alone
notE == <<avars, pvars, svars, nvars, cvars>>

AnalyzeInit ==
    /\ svc \in Services
    /\ hasKey \in BOOLEAN
    /\ apc = "enter"
    /\ attempt = 1
    /\ entered = 0
    /\ calls = 0
    /\ waits = <<>>
    /\ caught = <<>>
    /\ reply = NoReply
    /\ result = NoObject

\* what happens before generateContent is called when no key is configured:
\*   "return"  if (!apiKey) return {...}                   (before the try block)
\*   "throw"   if (!apiKey) throw new Error(...)           (inside the try block)
\*             G5 tests nothing: new GoogleGenAI({ apiKey: undefined }) throws in
\*             the browser build of the client library, inside the try block
KeyCheck(v, key) ==
    IF key THEN "pass"
    ELSE IF v \in KeyGuarded THEN "return"
    ELSE "throw"

\* entering the function body: the key test, new GoogleGenAI(...), generateContent(...)
AnalyzeEnter ==
    /\ apc = "enter"
    /\ entered' = entered + 1
    /\ LET k == KeyCheck(svc, hasKey) IN
       IF k = "return"
       THEN /\ apc' = "returned"
            /\ result' = MissingKeyResult(svc)
            /\ UNCHANGED <<calls, caught>>
       ELSE IF k = "throw"
       THEN /\ apc' = "catch"
            /\ caught' = Append(caught, IF svc = "G5" THEN ClientKeyError ELSE MissingKeyError)
            /\ UNCHANGED <<calls, result>>
       ELSE /\ apc' = "calling"
            /\ calls' = calls + 1
            /\ UNCHANGED <<caught, result>>
    /\ UNCHANGED <<notA, svc, hasKey, attempt, waits, reply>>

\* generateContent rejects
ModelRejects ==
    /\ apc = "calling"
    /\ \E e \in ApiErrors : caught' = Append(caught, e)
    /\ apc' = "catch"
    /\ UNCHANGED <<notA, svc, hasKey, attempt, entered, calls, waits, reply, result>>

\* generateContent resolves: the rest of the try block
ModelReplies ==
    /\ apc = "calling"
    /\ \E rp \in Replies :
          LET r == ParseReply(svc, rp) IN
          /\ reply' = rp
          /\ IF r.ok
             THEN /\ apc' = "returned"
                  /\ result' = r.value
                  /\ UNCHANGED caught
             ELSE /\ apc' = "catch"
                  /\ caught' = Append(caught, r.error)
                  /\ UNCHANGED result
    /\ UNCHANGED <<notA, svc, hasKey, attempt, entered, calls, waits>>

\* the catch block: wait and call again, or give up
AnalyzeCatch ==
    /\ apc = "catch"
    /\ LET e == caught[Len(caught)] IN
       IF ShouldRetry(svc, e, attempt)
       THEN /\ \E j \in Jitters : waits' = Append(waits, Backoff(svc, attempt, j))
            /\ apc' = "waiting"
            /\ UNCHANGED result
       ELSE /\ apc' = "returned"
            /\ result' = Sentinel(svc, e)
            /\ UNCHANGED waits
    /\ UNCHANGED <<notA, svc, hasKey, attempt, entered, calls, caught, reply>>

\* the timer of wait(...) fires: return analyzePhoto(base64Image, attempt + 1)
WaitElapsed ==
    /\ apc = "waiting"
    /\ apc' = "enter"
    /\ attempt' = attempt + 1
    /\ UNCHANGED <<notA, svc, hasKey, entered, calls, waits, caught, reply, result>>

AnalyzeNext ==
    \/ AnalyzeEnter
    \/ ModelRejects
    \/ ModelReplies
    \/ AnalyzeCatch
    \/ WaitElapsed


(***************************************************************************)
(* The App component.  Four versions:                                      *)
(*   Q   src/App.tsx:231          queue and processNext effect             *)
(*   L3  src/unnamed/part_003:260 loop in processFiles, COMPRESSING and    *)
(*                                ANALYZING, 200 ms after every photo      *)
(*   LA  src/App.tsx:543          the same loop, rows without handlers     *)
(*   L4  src/unnamed/part_004:327 loop that sends the whole file, 1000 ms  *)
(*                                before every photo but the first         *)
(***************************************************************************)
Apps == {"Q", "L3", "LA", "L4"}

\* the most photos dropped in one behaviour
MaxPhotos == 2

\* A file: its name as the segments between the dots, and what reading it gives:
\*   "good"        an embedded preview that decodes
\*   "corrupt"     embedded preview bytes the Image element cannot decode
\*   "none"        no embedded preview
\*   "unreadable"  every read of the file fails
Files ==
    { [name |-> <<"a", "jpg">>, content |-> "good"],
      [name |-> <<"a", "nef">>, content |-> "none"],
      [name |-> <<"b", "nef">>, content |-> "corrupt"],
      [name |-> <<"c">>, content |-> "unreadable"] }

\* the FileLists a drop can carry
RECURSIVE FileLists(_)
FileLists(n) ==
    IF n = 0 THEN {<<>>}
    ELSE LET shorter == FileLists(n - 1) IN
         shorter \cup { Append(l, f) : l \in {x \in shorter : Len(x) = n - 1}, f \in Files }

\* extractMetadata / extractData: whether a preview blob comes back
HasPreview(file) == file.content \in {"good", "corrupt"}

\* sanitizeAndCompress resolves (img.onload) or rejects (img.onerror)
Decodes(file) == file.content = "good"

\* fileToBase64 resolves (reader.onload) or rejects (reader.onerror)
Readable(file) == file.content # "unreadable"

NoProject == [open |-> FALSE, photos |-> <<>>]

\* the entry processFiles pushes to newPhotos
NewPhoto(id, file) ==
    [id |-> id, file |-> file, status |-> "PENDING", selected |-> FALSE, analysis |-> <<>>]

\* prev => prev ? { ...prev, photos: prev.photos.map(p => p.id === id ? F[p] : p) } : null,
\* F a function on the photos of prev
PhotoSet(proj) == {proj.photos[i] : i \in DOMAIN proj.photos}

MapPhoto(proj, id, F) ==
    IF ~proj.open THEN proj
    ELSE [proj EXCEPT !.photos =
              [i \in DOMAIN proj.photos |->
                  IF proj.photos[i].id = id THEN F[proj.photos[i]] ELSE proj.photos[i]]]

\* x >= k after ToNumber(x)
AtLeast(x, k) ==
    CASE x.t = "number" -> x.n >= k
      [] x.t = "string" -> x.s = "5" /\ 5 >= k
      [] OTHER -> FALSE

\* (analysis.rating || 0) >= 3
Keep(a) == AtLeast(OrElse(a["rating"], Num(0)), 3)

\* { ...p, status: 'COMPLETED', analysis, selected: (analysis.rating || 0) >= 3 }
Completed(p, a) ==
    [p EXCEPT !.status = "COMPLETED", !.analysis = <<a>>, !.selected = Keep(a)]

\* the object of updateStatus('FAILED', { reason: err.message || "FAILED" })
ReasonOnly(msg) == [f \in Fields |-> IF f = "reason" THEN Str(msg) ELSE Undefined]

\* the catch block's update of the photo
Failed(v, p, msg) ==
    IF v = "L3"
    THEN [p EXCEPT !.status = "FAILED", !.analysis = <<ReasonOnly(msg)>>]
    ELSE [p EXCEPT !.status = "FAILED"]

\* err.message in the catch block
\*   the photo has no preview, or its preview does not decode, or (L4) cannot be read
PrepareError(v, file) ==
    IF v = "L4" THEN "read error"
    ELSE IF HasPreview(file)
    THEN (IF v = "L3" THEN "Image render failed - Data corrupt" ELSE "Image corrupt")
    ELSE (CASE v = "Q" -> "Preview Lost"
            [] v = "L3" -> "No preview found in RAW"
            [] OTHER -> "No Preview")

\* err.message of the throw after analyzePhoto
ResultError(v) == IF v = "L3" THEN "API Key Invalid or Quota Exceeded" ELSE "API Key Invalid"

\* the stars StarRating fills: star <= rating, rating = photo.analysis?.rating || 0
Stars(p) ==
    IF p.analysis = <<>> THEN 0
    ELSE Cardinality({star \in 1..5 : AtLeast(OrElse(p.analysis[1]["rating"], Num(0)), star)})

\* if (analysis.reason === 'API_FAIL') throw new Error(...)
ThrowsOnResult(v, a) == v \in {"L3", "LA"} /\ a["reason"] = Str("API_FAIL")

\* what analyzePhoto hands back to the App: a give-up object of the retrying
\* versions, a complete analysis, and a reply without a numeric rating as the
\* spread versions pass it on
AppReturns ==
    { Sentinel("G3", Err(0, {})), Sentinel("G5", Err(0, {})),
      Mapping("G3", FullObject(Num(4))), Mapping("G5", BareObject(Null)) }

\* the ratings the star buttons send: CLEAR, a star below 3, a star from 3 up
ManualRatings == {0, 2, 5}

\* `${rating}` in generateXMP, rating = 0 by default
Text(x) ==
    CASE x.t = "number" ->
            (CASE x.n = 0 -> "0" [] x.n = 1 -> "1" [] x.n = 2 -> "2" [] x.n = 3 -> "3"
               [] x.n = 4 -> "4" [] OTHER -> "5")
      [] x.t = "string" -> x.s
      [] x.t = "null" -> "null"
      [] x.t = "undefined" -> "undefined"
      [] OTHER -> "[object Object]"

\* const { rating = 0 } = photo.analysis || {} ... xmp:Rating="${rating}"
generateXMP(p) ==
    IF p.analysis = <<>> THEN "0"
    ELSE LET r == p.analysis[1]["rating"] IN
         IF r.t = "undefined" THEN "0" ELSE Text(r)

\* the filter of handleExportXMP
Exported(v, p) ==
    /\ p.status = "COMPLETED"
    /\ v \in {"L3", "L4"} =>
          (p.analysis # <<>> /\ AtLeast(OrElse(p.analysis[1]["rating"], Num(0)), 1))

\* name.split('.')[0] (Q, LA); name.substring(0, name.lastIndexOf('.')) || name (L3, L4)
BaseName(v, name) ==
    IF v \in {"Q", "LA"} THEN <<name[1]>>
    ELSE IF Len(name) = 1 \/ (Len(name) = 2 /\ name[1] = "") THEN name
    ELSE SubSeq(name, 1, Len(name) - 1)

\* `${base}.xmp`
EntryName(v, name) == Append(BaseName(v, name), "xmp")

\* the zip.file(...) calls of handleExportXMP, in order
RECURSIVE ZipCalls(_, _)
ZipCalls(v, photos) ==
    IF photos = <<>> THEN <<>>
    ELSE LET p == Head(photos) IN
         (IF Exported(v, p)
          THEN <<[id |-> p.id, entry |-> EntryName(v, p.file.name),
                  rating |-> generateXMP(p)]>>
          ELSE <<>>) \o ZipCalls(v, Tail(photos))

(***************************************************************************)
(* State of the App.                                                       *)
(***************************************************************************)
\* an async function under way: kind "files" (processFiles) or "next"
\* (processNext); snap is the activeProject its closure captured; files and batch
\* are its FileList and the ids of its newPhotos; i is the index of the photo at
\* hand; fresh says its timer was started after the last return of analyzePhoto
Run(kind, pc, snap, files, batch, i, fresh) ==
    [kind |-> kind, pc |-> pc, snap |-> snap, files |-> files, batch |-> batch,
     i |-> i, fresh |-> fresh]

RemoveAt(seq, k) == SubSeq(seq, 1, k - 1) \o SubSeq(seq, k + 1, Len(seq))

\* the analyzePhoto calls in flight
InFlight == Cardinality({k \in DOMAIN runs : runs[k].pc = "analyze"})

\* the App mounted with nothing in localStorage
AppInit ==
    /\ app \in Apps
    /\ activeProject = NoProject
    /\ queue = <<>>
    /\ isProcessing = FALSE
    /\ isExporting = FALSE
    /\ zip = <<>>
    /\ runs = <<>>
    /\ made = 0
    /\ rest = "none"

\* where the drop target or the file input is on screen
CanDrop ==
    CASE app \in {"Q", "L3"} -> TRUE
      [] app = "LA" -> ~activeProject.open \/ activeProject.photos = <<>>
      [] OTHER -> ~isProcessing /\ (~activeProject.open \/ activeProject.photos = <<>>)

\* handleDrop / the input's onChange: processFiles(files) up to its first await
Drop(files) ==
    /\ CanDrop
    /\ files # <<>>
    /\ made + Len(files) <= MaxPhotos
    /\ runs' = Append(runs,
          Run("files", "ingest", activeProject, files,
              [i \in 1..Len(files) |-> made + i], 0, FALSE))
    /\ made' = made + Len(files)
    /\ isProcessing' = IF app = "L4" THEN TRUE ELSE isProcessing
    /\ UNCHANGED <<notP, app, activeProject, queue, isExporting, zip, rest>>

\* the first step of the loop body for photo i of a batch
Begin(v, proj, id) ==
    IF v \in {"L3", "LA"}
    THEN MapPhoto(proj, id, [p \in PhotoSet(proj) |-> [p EXCEPT !.status = "COMPRESSING"]])
    ELSE proj

\* new photos put in front of the waiting ones
Enqueue_InFront(q, newPhotos) == newPhotos \o q

\* setQueue(prev => [...prev, ...newPhotos])
Enqueue(q, newPhotos) == q \o newPhotos

\* processFiles after its extraction awaits: setActiveProject({ ...currentProject,
\* photos: [...currentProject.photos, ...newPhotos] }) and what follows it
IngestCommit(k) ==
    /\ k \in DOMAIN runs
    /\ runs[k].kind = "files" /\ runs[k].pc = "ingest"
    /\ LET r == runs[k]
           newPhotos == [i \in 1..Len(r.files) |-> NewPhoto(r.batch[i], r.files[i])]
           merged == [open |-> TRUE, photos |-> r.snap.photos \o newPhotos]
       IN  IF app = "Q"
           THEN /\ activeProject' = merged
                /\ queue' = Enqueue(queue, newPhotos)
                /\ runs' = RemoveAt(runs, k)
                /\ UNCHANGED isProcessing
           ELSE /\ activeProject' = Begin(app, merged, r.batch[1])
                /\ runs' = [runs EXCEPT ![k].pc = "prepare", ![k].i = 1]
                /\ isProcessing' = TRUE
                /\ UNCHANGED queue
    /\ UNCHANGED <<notP, app, isExporting, zip, made, rest>>

\* setQueue(prev => prev.slice(1)) of the finally block, the queue emptied instead
Finally_DropsAll(q) == <<>>

\* finally { setQueue(prev => prev.slice(1)); ... }
Finally(q) == IF q = <<>> THEN q ELSE Tail(q)

\* the processNext effect, the photo at the head of the queue has a blob
ProcessNextStart ==
    /\ app = "Q"
    /\ ~isProcessing /\ queue # <<>> /\ activeProject.open
    /\ HasPreview(Head(queue).file)
    /\ isProcessing' = TRUE
    /\ activeProject' = MapPhoto(activeProject, Head(queue).id,
                                 [p \in PhotoSet(activeProject) |-> [p EXCEPT !.status = "PROCESSING"]])
    /\ runs' = Append(runs,
          Run("next", "prepare", NoProject, <<Head(queue).file>>, <<Head(queue).id>>, 1, FALSE))
    /\ UNCHANGED <<notP, app, queue, isExporting, zip, made, rest>>

\* the processNext effect, the photo at the head has no blob: throw new
\* Error("Preview Lost"), catch and finally run before the first await
ProcessNextPreviewLost ==
    /\ app = "Q"
    /\ ~isProcessing /\ queue # <<>> /\ activeProject.open
    /\ ~HasPreview(Head(queue).file)
    /\ activeProject' = MapPhoto(activeProject, Head(queue).id,
                                 [p \in PhotoSet(activeProject) |-> Failed(app, p, PrepareError(app, Head(queue).file))])
    /\ queue' = Finally(queue)
    /\ runs' = Append(runs,
          Run("next", "delay", NoProject, <<Head(queue).file>>, <<Head(queue).id>>, 1, TRUE))
    /\ UNCHANGED <<notP, app, isProcessing, isExporting, zip, made, rest>>

\* where a run goes after its photo is settled
\*   Q   the breather of finally
\*   L3, LA  the 200 ms at the end of the loop body
\*   L4  the 1000 ms before the next photo, or the 500 ms before the view closes
AfterPhoto(v, r) ==
    [r EXCEPT !.pc = IF v = "L4" /\ r.i = Len(r.batch) THEN "closing" ELSE "delay",
              !.fresh = TRUE]

\* the await before analyzePhoto settles: sanitizeAndCompress (Q), extractData and
\* sanitizeAndCompress (L3, LA), fileToBase64 (L4)
Prepared(v, file) ==
    IF v = "L4" THEN Readable(file) ELSE HasPreview(file) /\ Decodes(file)

PrepareSettles(k) ==
    /\ k \in DOMAIN runs
    /\ runs[k].pc = "prepare"
    /\ LET r == runs[k]
           id == r.batch[r.i]
           file == r.files[r.i]
       IN  IF Prepared(app, file)
           THEN /\ activeProject' =
                      IF app \in {"L3", "LA"}
                      THEN MapPhoto(activeProject, id,
                                    [p \in PhotoSet(activeProject) |-> [p EXCEPT !.status = "ANALYZING"]])
                      ELSE activeProject
                /\ runs' = [runs EXCEPT ![k].pc = "analyze"]
                /\ UNCHANGED <<queue, isProcessing>>
           ELSE /\ activeProject' = MapPhoto(activeProject, id,
                          [p \in PhotoSet(activeProject) |-> Failed(app, p, PrepareError(app, file))])
                /\ runs' = [runs EXCEPT ![k] = AfterPhoto(app, r)]
                /\ queue' = IF app = "Q" THEN Finally(queue) ELSE queue
                /\ isProcessing' = IF app = "Q" THEN FALSE ELSE isProcessing
    /\ UNCHANGED <<notP, app, isExporting, zip, made, rest>>

\* await analyzePhoto(...) resolves with a
AnalyzeReturns(k, a) ==
    /\ k \in DOMAIN runs
    /\ runs[k].pc = "analyze"
    /\ LET r == runs[k]
           id == r.batch[r.i]
       IN  /\ activeProject' =
                  IF ThrowsOnResult(app, a)
                  THEN MapPhoto(activeProject, id,
                                [p \in PhotoSet(activeProject) |-> Failed(app, p, ResultError(app))])
                  ELSE MapPhoto(activeProject, id, [p \in PhotoSet(activeProject) |-> Completed(p, a)])
           /\ runs' = [j \in DOMAIN runs |->
                          IF j = k THEN AfterPhoto(app, r)
                          ELSE [runs[j] EXCEPT !.fresh = FALSE]]
    /\ queue' = IF app = "Q" THEN Finally(queue) ELSE queue
    /\ isProcessing' = IF app = "Q" THEN FALSE ELSE isProcessing
    /\ rest' = "ended"
    /\ UNCHANGED <<notP, app, isExporting, zip, made>>

\* a setTimeout of a run fires
TimerFires(k) ==
    /\ k \in DOMAIN runs
    /\ runs[k].pc \in {"delay", "closing"}
    /\ LET r == runs[k]
           more == r.kind = "files" /\ r.i < Len(r.batch)
       IN  /\ IF more
              THEN /\ runs' = [runs EXCEPT ![k].pc = "prepare", ![k].i = r.i + 1,
                                           ![k].fresh = FALSE]
                   /\ activeProject' = Begin(app, activeProject, r.batch[r.i + 1])
              ELSE /\ runs' = RemoveAt(runs, k)
                   /\ UNCHANGED activeProject
           /\ isProcessing' = IF r.kind = "files" /\ ~more THEN FALSE ELSE isProcessing
           /\ rest' = IF r.fresh /\ r.pc = "delay" /\ rest = "ended" THEN "rested" ELSE rest
    /\ UNCHANGED <<notP, app, queue, isExporting, zip, made>>

\* where the photo cards answer clicks
CardsShown ==
    /\ activeProject.open
    /\ app # "LA"
    /\ app = "L4" => ~isProcessing

\* onToggle(id)
Toggle(id) ==
    /\ CardsShown
    /\ \E i \in DOMAIN activeProject.photos : activeProject.photos[i].id = id
    /\ activeProject' = MapPhoto(activeProject, id,
                                 [p \in PhotoSet(activeProject) |-> [p EXCEPT !.selected = ~p.selected]])
    /\ UNCHANGED <<notP, app, queue, isProcessing, isExporting, zip, runs, made, rest>>

\* p.id === id && p.analysis ? { ...p, selected: rating >= 3, analysis: { ...p.analysis, rating } } : p
Rated(p, rating) ==
    IF p.analysis = <<>> THEN p
    ELSE [p EXCEPT !.selected = rating >= 3,
                   !.analysis = <<[p.analysis[1] EXCEPT !["rating"] = Num(rating)]>>]

\* onRate(id, rating), the stars of a COMPLETED photo
Rate(id, rating) ==
    /\ CardsShown
    /\ \E i \in DOMAIN activeProject.photos :
          activeProject.photos[i].id = id /\ activeProject.photos[i].status = "COMPLETED"
    /\ activeProject' = MapPhoto(activeProject, id, [p \in PhotoSet(activeProject) |-> Rated(p, rating)])
    /\ UNCHANGED <<notP, app, queue, isProcessing, isExporting, zip, runs, made, rest>>

\* onBack: setActiveProject(null)
Back ==
    /\ activeProject.open
    /\ activeProject' = NoProject
    /\ UNCHANGED <<notP, app, queue, isProcessing, isExporting, zip, runs, made, rest>>

\* where the EXPORT XMP button is on screen and enabled
CanExport ==
    /\ activeProject.open
    /\ ~isExporting
    /\ CASE app = "Q" ->
              \E i \in DOMAIN activeProject.photos : activeProject.photos[i].status = "COMPLETED"
         [] app = "LA" ->
              /\ ~isProcessing
              /\ \E i \in DOMAIN activeProject.photos :
                    activeProject.photos[i].status = "COMPLETED"
         [] OTHER -> activeProject.photos # <<>> /\ ~isProcessing

\* handleExportXMP up to await zip.generateAsync(...)
handleExportXMP ==
    /\ CanExport
    /\ isExporting' = TRUE
    /\ zip' = ZipCalls(app, activeProject.photos)
    /\ UNCHANGED <<notP, app, activeProject, queue, isProcessing, runs, made, rest>>

\* handleExportXMP after the await: link.click(); setIsExporting(false)
ExportDone ==
    /\ isExporting
    /\ isExporting' = FALSE
    /\ zip' = <<>>
    /\ UNCHANGED <<notP, app, activeProject, queue, isProcessing, runs, made, rest>>

\* no analyzePhoto call is followed step by step while the App runs
AnalyzeIdle ==
    /\ svc = "G3"
    /\ hasKey = TRUE
    /\ apc = "returned"
    /\ attempt = 1
    /\ entered = 0
    /\ calls = 0
    /\ waits = <<>>
    /\ caught = <<>>
    /\ reply = NoReply
    /\ result = NoObject

\* no App is mounted while one analyzePhoto call is followed
AppIdle ==
    /\ app = "none"
    /\ activeProject = NoProject
    /\ queue = <<>>
    /\ isProcessing = FALSE
    /\ isExporting = FALSE
    /\ zip = <<>>
    /\ runs = <<>>
    /\ made = 0
    /\ rest = "none"

AppNext ==
    \/ \E files \in FileLists(MaxPhotos) : Drop(files)
    \/ \E k \in 1..MaxPhotos : IngestCommit(k)
    \/ ProcessNextStart
    \/ ProcessNextPreviewLost
    \/ \E k \in 1..MaxPhotos : PrepareSettles(k)
    \/ \E k \in 1..MaxPhotos, a \in AppReturns : AnalyzeReturns(k, a)
    \/ \E k \in 1..MaxPhotos : TimerFires(k)
    \/ \E id \in 1..MaxPhotos : Toggle(id)
    \/ \E id \in 1..MaxPhotos, rating \in ManualRatings : Rate(id, rating)
    \/ Back
    \/ handleExportXMP
    \/ ExportDone


(***************************************************************************)
(* The extraction step: extractMetadata (Q, src/App.tsx:96; L4,            *)
(* src/unnamed/part_004:81) and extractData (L3, src/unnamed/part_003:105; *)
(* LA, src/App.tsx:449).                                                   *)
(***************************************************************************)
\* the preview strategies in the order of the code
Strategies(v) ==
    IF v = "L4" THEN <<"thumbnailUrl", "objectURL">>
    ELSE <<"preview", "thumbnail", "scan">>

\* what a call can do: throw, resolve with nothing (undefined, no marker found),
\* resolve with something (an EXIF record, preview bytes, a URL)
Outcomes(call) == IF call = "objectURL" THEN {"value"} ELSE {"throws", "nothing", "value"}

\* the catch block a throw of the call lands in, all of them swallowed instead of
\* caught where the code catches them
Handler_None(v, call) == "none"

\* the catch block a throw of the call lands in: the try around the call itself
\* ("inner") or the try around the whole body ("outer")
Handler(v, call) == IF v = "L4" /\ call = "parse" THEN "outer" ELSE "inner"

\* let meta = { iso: '-', aperture: '-', shutter: '-', ... } before the parse
InitialMeta(v) == IF v = "L4" THEN "unset" ELSE "dash"

\* meta after exifr.parse resolved: the EXIF values, or '100', 'f/2.8', '1/250'
ParsedMeta(outcome) == IF outcome = "value" THEN "exif" ELSE "fallback"

\* the return of the outer catch block
OuterCatch(v) == [preview |-> "null", meta |-> IF v = "L4" THEN "fallback" ELSE "dash"]

\* if (!previewUrl && (file.type === 'image/jpeg' || ...)) for objectURL, if
\* (!thumbBuffer) for the others
Applies(call, type) == call = "objectURL" => type = "image"

\* a strategy is still to be called
Pending ==
    /\ thumbBuffer = "undefined"
    /\ step <= Len(Strategies(exv))
    /\ Applies(Strategies(exv)[step], fileType)

\* the thumbnail call made whether or not the preview call gave bytes
Proceed_Always(v, call, outcome) == IF outcome = "value" /\ call # "preview" THEN call ELSE "undefined"

\* thumbBuffer after a strategy settled
Proceed(v, call, outcome) == IF outcome = "value" THEN call ELSE "undefined"

NoExtract == [preview |-> "pending", meta |-> "pending"]

ExtractInit ==
    /\ exv \in Apps
    /\ fileType \in {"image", "raw"}
    /\ epc = "parse"
    /\ step = 1
    /\ meta = InitialMeta(exv)
    /\ thumbBuffer = "undefined"
    /\ tried = <<>>
    /\ extracted = NoExtract

\* where a throw of the call leaves the step
Throws(call) ==
    CASE Handler(exv, call) = "inner" ->
            /\ epc' = "waterfall"
            /\ UNCHANGED extracted
      [] Handler(exv, call) = "outer" ->
            /\ epc' = "done"
            /\ extracted' = OuterCatch(exv)
      [] OTHER ->
            /\ epc' = "rejected"
            /\ UNCHANGED extracted

\* await exifr.parse(file, ...) settles
ParseSettles ==
    /\ epc = "parse"
    /\ \E o \in Outcomes("parse") :
          /\ tried' = Append(tried, <<"parse", o>>)
          /\ IF o = "throws"
             THEN /\ Throws("parse")
                  /\ UNCHANGED meta
             ELSE /\ meta' = ParsedMeta(o)
                  /\ epc' = "waterfall"
                  /\ UNCHANGED extracted
    /\ UNCHANGED <<notE, exv, fileType, step, thumbBuffer>>

\* the next strategy is called and settles
StrategySettles ==
    /\ epc = "waterfall"
    /\ Pending
    /\ LET call == Strategies(exv)[step] IN
       \E o \in Outcomes(call) :
          /\ tried' = Append(tried, <<call, o>>)
          /\ step' = step + 1
          /\ thumbBuffer' = Proceed(exv, call, o)
          /\ IF o = "throws"
             THEN Throws(call)
             ELSE UNCHANGED <<epc, extracted>>
    /\ UNCHANGED <<notE, exv, fileType, meta>>

\* return { url, meta, blob } / return { thumbnailBlob, meta }
ExtractReturns ==
    /\ epc = "waterfall"
    /\ ~Pending
    /\ epc' = "done"
    /\ extracted' = [preview |-> IF thumbBuffer = "undefined" THEN "null" ELSE thumbBuffer,
                     meta |-> meta]
    /\ UNCHANGED <<notE, exv, fileType, step, meta, thumbBuffer, tried>>

\* no extraction is followed step by step
ExtractIdle ==
    /\ exv = "none"
    /\ fileType = "raw"
    /\ epc = "done"
    /\ step = 1
    /\ meta = "dash"
    /\ thumbBuffer = "undefined"
    /\ tried = <<>>
    /\ extracted = NoExtract

ExtractNext ==
    \/ ParseSettles
    \/ StrategySettles
    \/ ExtractReturns

(***************************************************************************)
(* sanitizeAndCompress: Q src/App.tsx:14 (orientation-aware), LA           *)
(* src/App.tsx:405, L3 src/unnamed/part_003:15.  Sizes are exact rationals *)
(* cut to whole pixels as the canvas.width and canvas.height setters do.   *)
(***************************************************************************)
Sanitizers == {"Q", "LA", "L3"}

MAX_SIZE == 1024

\* the widths and heights of the images tried
Sides == {1, 600, 1024, 1025, 2048, 6000}

Max(a, b) == IF a >= b THEN a ELSE b

\* no resizing at all
ScaleDown_None(side, long) == side

\* side * Math.min(MAX_SIZE / width, MAX_SIZE / height, 1), long the longer side
ScaleDown(side, long) == IF long > MAX_SIZE THEN (side * MAX_SIZE) \div long ELSE side

\* side * (1024 / Math.max(img.width, img.height))
ScaleTo(side, long) == (side * MAX_SIZE) \div long

Canvas(state, width, height) == [state |-> state, width |-> width, height |-> height]

NoCanvas == Canvas("pending", 0, 0)

\* the canvas drawn on and encoded by img.onload
sanitizeAndCompress(v, image, o) ==
    LET w == image.width
        h == image.height
        long == Max(w, h)
    IN  CASE v = "Q" ->
               LET \* if (orientation > 4) [width, height] = [height, width]
                   width == IF o > 4 THEN h ELSE w
                   height == IF o > 4 THEN w ELSE h
                   finalWidth == ScaleDown(width, long)
                   finalHeight == ScaleDown(height, long)
               IN  \* orientation 1 and 6 draw on the canvas as sized; the others
                   \* set canvas.width = img.width * scale, canvas.height =
                   \* img.height * scale before they draw
                   IF o = 1 \/ o = 6
                   THEN Canvas("resolved", finalWidth, finalHeight)
                   ELSE Canvas("resolved", ScaleDown(w, long), ScaleDown(h, long))
          [] v = "LA" -> Canvas("resolved", ScaleTo(w, long), ScaleTo(h, long))
          [] OTHER ->
               IF w > h
               THEN (IF w > MAX_SIZE THEN Canvas("resolved", MAX_SIZE, (h * MAX_SIZE) \div w)
                     ELSE Canvas("resolved", w, h))
               ELSE (IF h > MAX_SIZE THEN Canvas("resolved", (w * MAX_SIZE) \div h, MAX_SIZE)
                     ELSE Canvas("resolved", w, h))

SanitizeInit ==
    /\ sanv \in Sanitizers
    /\ img \in [width : Sides, height : Sides]
    /\ orientation \in IF sanv = "Q" THEN 1..8 ELSE {1}
    /\ hasCtx \in BOOLEAN
    /\ encoded = NoCanvas

\* img.onload
ImageLoads ==
    /\ encoded = NoCanvas
    /\ encoded' = IF hasCtx THEN sanitizeAndCompress(sanv, img, orientation)
                  ELSE Canvas("rejected", 0, 0)
    /\ UNCHANGED <<notS, sanv, img, orientation, hasCtx>>

\* no sanitizeAndCompress call is followed
SanitizeIdle ==
    /\ sanv = "none"
    /\ img = [width |-> 1, height |-> 1]
    /\ orientation = 1
    /\ hasCtx = TRUE
    /\ encoded = Canvas("idle", 0, 0)

SanitizeNext == ImageLoads

(***************************************************************************)
(* The name of a zip entry.  A file name is the sequence of its pieces     *)
(* between dots: "a.b.jpg" is <<"a", "b", "jpg">>, ".jpg" is <<"", "jpg">> *)
(* and a name with no dot has one piece.                                   *)
(***************************************************************************)

Pieces == {"", "a", "b", "jpg"}

\* the file names: one to three pieces, not the empty name
Names ==
    (UNION { [1..n -> Pieces] : n \in 1..3 }) \ { <<"">> }

NoEntry == <<"pending">>

NameInit ==
    /\ nv \in Apps
    /\ fname \in Names
    /\ entry = NoEntry

\* zip.file(`${base}.xmp`, ...) for one exported photo
ZipFile ==
    /\ entry = NoEntry
    /\ entry' = EntryName(nv, fname)
    /\ UNCHANGED <<notN, nv, fname>>

\* no export is followed
NameIdle ==
    /\ nv = "none"
    /\ fname = <<"none">>
    /\ entry = <<"idle">>

NameNext == ZipFile

(***************************************************************************)
(* The raw byte scan of the extraction (src/App.tsx:121-133 and 472-486,   *)
(* src/unnamed/part_003:133-158).  Sizes are scaled: ScanBytes stands for   *)
(* the 30 MiB (20 MiB) of file.slice and PreviewBytes for the 8 MiB of     *)
(* buffer.slice.                                                           *)
(***************************************************************************)
Scanners == {"Q", "L3", "LA"}

MaxFile == 5

ScanBytes == 4

PreviewBytes == 4

\* 0xFF, 0xD8 and one other byte
ByteValues == {255, 216, 0}

FileBytes == UNION { [1..n -> ByteValues] : n \in 0..MaxFile }

Min(a, b) == IF a <= b THEN a ELSE b

\* file.slice(0, ...).arrayBuffer()
Prefix(file) == SubSeq(file, 1, Min(Len(file), ScanBytes))

\* view.getUint8(offset) of a byte inside the buffer
getUint8(buffer, offset) == buffer[offset + 1]

\* a loop that stops three bytes before the end
LoopBound_Short(len) == len - 3

\* the bound of for (let i = 0; i < buffer.byteLength - 1; i++)
LoopBound(len) == len - 1

\* buffer.slice(from, to): to is cut to the length of the buffer
Slice(buffer, from, to) == SubSeq(buffer, from + 1, Min(to, Len(buffer)))

NoPreview == [state |-> "none", bytes |-> <<>>]

ScanInit ==
    /\ scv \in Scanners
    /\ bytes \in FileBytes
    /\ si = 0
    /\ start = -1
    /\ reads = {}
    /\ scpc = "loop"
    /\ scanned = [state |-> "pending", bytes |-> <<>>]

\* one turn of the loop body: the tests of bytes i, i+1 and i+2, left to right;
\* getUint8 of an offset outside the buffer throws a RangeError into the catch
ScanStep ==
    /\ scpc = "loop"
    /\ si < LoopBound(Len(Prefix(bytes)))
    /\ LET buffer == Prefix(bytes) IN
       IF getUint8(buffer, si) # 255
       THEN /\ reads' = reads \cup {si}
            /\ si' = si + 1
            /\ UNCHANGED <<start, scpc>>
       ELSE IF getUint8(buffer, si + 1) # 216
       THEN /\ reads' = reads \cup {si, si + 1}
            /\ si' = si + 1
            /\ UNCHANGED <<start, scpc>>
       ELSE /\ reads' = reads \cup {si, si + 1, si + 2}
            /\ IF si + 2 >= Len(buffer)
               THEN scpc' = "caught" /\ UNCHANGED <<si, start>>
               ELSE IF getUint8(buffer, si + 2) = 255
               THEN scpc' = "found" /\ start' = si /\ UNCHANGED si
               ELSE si' = si + 1 /\ UNCHANGED <<start, scpc>>
    /\ UNCHANGED <<notC, scv, bytes, scanned>>

\* after the loop, the break or the catch: if (start !== -1) thumbBuffer =
\* buffer.slice(start, start + 8 MiB), written with Math.min in part_003
ScanReturns ==
    /\ \/ scpc \in {"found", "caught"}
       \/ scpc = "loop" /\ si >= LoopBound(Len(Prefix(bytes)))
    /\ scpc' = "done"
    /\ scanned' = IF scpc # "caught" /\ start # -1
                  THEN [state |-> "bytes",
                        bytes |-> Slice(Prefix(bytes), start, start + PreviewBytes)]
                  ELSE NoPreview
    /\ UNCHANGED <<notC, scv, bytes, si, start, reads>>

\* no scan is followed
ScanIdle ==
    /\ scv = "none"
    /\ bytes = <<>>
    /\ si = 0
    /\ start = -1
    /\ reads = {}
    /\ scpc = "idle"
    /\ scanned = [state |-> "idle", bytes |-> <<>>]

ScanNext == ScanStep \/ ScanReturns

(***************************************************************************)
(* The specifications.                                                     *)
(***************************************************************************)
\* the App alone
Init == AppInit /\ AnalyzeIdle /\ ExtractIdle /\ SanitizeIdle /\ NameIdle /\ ScanIdle

Spec == Init /\ [][AppNext]_vars

\* the queue variant alone, with fair scheduling: a promise that can settle
\* settles, a timer that was set fires, an effect whose guard holds runs; the
\* user's drops, clicks and Back are under no obligation
InitQueue == Init /\ app = "Q"

Scheduling ==
    /\ \A k \in 1..MaxPhotos : WF_vars(IngestCommit(k))
    /\ WF_vars(ProcessNextStart)
    /\ WF_vars(ProcessNextPreviewLost)
    /\ \A k \in 1..MaxPhotos : WF_vars(PrepareSettles(k))
    /\ \A k \in 1..MaxPhotos : WF_vars(\E a \in AppReturns : AnalyzeReturns(k, a))
    /\ \A k \in 1..MaxPhotos : WF_vars(TimerFires(k))
    /\ WF_vars(ExportDone)

SpecQueue == InitQueue /\ [][AppNext]_vars /\ Scheduling

\* one analyzePhoto call alone
InitAnalyze == AnalyzeInit /\ AppIdle /\ ExtractIdle /\ SanitizeIdle /\ NameIdle /\ ScanIdle

SpecAnalyze == InitAnalyze /\ [][AnalyzeNext]_vars

\* one extraction alone
InitExtract == ExtractInit /\ AppIdle /\ AnalyzeIdle /\ SanitizeIdle /\ NameIdle /\ ScanIdle

SpecExtract == InitExtract /\ [][ExtractNext]_vars

\* one sanitizeAndCompress call alone
InitSanitize == SanitizeInit /\ AppIdle /\ AnalyzeIdle /\ ExtractIdle /\ NameIdle /\ ScanIdle

SpecSanitize == InitSanitize /\ [][SanitizeNext]_vars

\* the naming of one zip entry alone
InitName == NameInit /\ AppIdle /\ AnalyzeIdle /\ ExtractIdle /\ SanitizeIdle /\ ScanIdle

SpecName == InitName /\ [][NameNext]_vars

\* one raw byte scan alone
InitScan ==
    ScanInit /\ AppIdle /\ AnalyzeIdle /\ ExtractIdle /\ SanitizeIdle /\ NameIdle

SpecScan == InitScan /\ [][ScanNext]_vars

(***************************************************************************)
(* Properties of analyzePhoto, checked under SpecAnalyze.                  *)
(***************************************************************************)
\* every attempt so far ended in the catch block with an error the version retries
AllRetryable ==
    /\ Len(caught) = entered
    /\ \A i \in 1..Len(caught) : isRetryable(svc, caught[i])

\* the reason strings of the give-up objects
SentinelReasons ==
    { "API_FAIL", "SYSTEM_FAILURE", "MISSING API KEY", "MISSING KEY",
      "MISSING API KEY (Check Vercel Settings)", "AI Error", "AI ERROR",
      "AI Analysis Failed", "Invalid API Key", "Model Not Found", "Quota Exceeded",
      "Bad API Key", "Rate Limit (Too Fast)", "Server Busy", "Safety Block" }

\* rating 0, the seven tonal values 0, no keywords, a sentinel reason
IsFailureObject(a) ==
    /\ a["rating"] = Num(0)
    /\ \A f \in TonalFields : a[f] = Num(0)
    /\ a["keywords"] = Arr(0)
    /\ a["reason"].t = "string" /\ a["reason"].s \in SentinelReasons

\* the call has returned and its last attempt failed, or the key test returned
GaveUp == apc = "returned" /\ Len(caught) = entered

\* C1: one top-level call of a retrying version (attempt = 1) makes at most
\* MAX_ATTEMPTS attempts; when every attempt failed with a retryable error it has
\* made exactly MAX_ATTEMPTS attempts when it returns, and it returns the sentinel.
C1_AtMostMaxAttempts ==
    svc \in Retrying =>
        /\ entered <= MAX_ATTEMPTS(svc)
        /\ attempt <= MAX_ATTEMPTS(svc)
        /\ (apc = "returned" /\ AllRetryable) =>
                (entered = MAX_ATTEMPTS(svc) /\ IsFailureObject(result))

C1_Witness ==
    /\ svc = "G5" /\ apc = "returned" /\ AllRetryable
    /\ entered = 5 /\ Len(waits) = 4

\* C2: analyzePhoto never rejects: every failure (key test, model call, empty
\* reply, JSON parsing) on any attempt ends in a returned object, and when the call
\* gives up that object has rating 0, the seven tonal values 0, no keywords and a
\* sentinel reason.
C2_GivesUpWithSentinel ==
    /\ apc \in {"enter", "calling", "catch", "waiting", "returned"}
    /\ (apc = "returned") <=> (result # NoObject)
    /\ (apc = "returned" /\ (Len(caught) = entered \/ KeyCheck(svc, hasKey) = "return"))
            => IsFailureObject(result)

C2_Witness ==
    /\ GaveUp /\ svc = "G5" /\ entered = 2
    /\ caught = <<Err(429, {"429"}), SyntaxError>>

\* C3: when the reply parses as JSON and its rating is no number, the analysis
\* analyzePhoto returns has rating 0.
C3_NonNumericRatingBecomesZero ==
    (/\ apc = "returned" /\ Len(caught) < entered
     /\ reply.kind = "object" /\ reply.obj["rating"].t # "number")
        => result["rating"] = Num(0)

\* C4: without a key analyzePhoto makes no model call, waits for no backoff and
\* makes no second attempt.
C4_NoKeyFailsImmediately ==
    ~hasKey => (calls = 0 /\ waits = <<>> /\ entered <= 1)

(***************************************************************************)
(* Properties of the App, checked under Spec.                              *)
(***************************************************************************)
Photos == activeProject.photos

\* the statuses of a photo that is being processed
Busy == {"PROCESSING", "COMPRESSING", "ANALYZING"}

\* a reason analyzePhoto gives when it gives up
IsSentinelReason(x) == x.t = "string" /\ x.s \in SentinelReasons

\* C5: a photo whose analysis is a give-up object of analyzePhoto (a failure reason
\* such as API_FAIL, SYSTEM_FAILURE, MISSING API KEY) is never COMPLETED.
C5_SentinelNeverCompleted ==
    \A i \in DOMAIN Photos :
        (Photos[i].status = "COMPLETED" /\ Photos[i].analysis # <<>>)
            => ~IsSentinelReason(Photos[i].analysis[1]["reason"])

\* C6: in the step that starts an export, the xmp:Rating written for a photo is the
\* rating its stars show (the last manual rating, else the model's rating).
C6_ExportedRatingIsDisplayed ==
    [][(~isExporting /\ isExporting') =>
          \A j \in DOMAIN zip' : \A i \in DOMAIN Photos :
              Photos[i].id = zip'[j].id => zip'[j].rating = Text(Num(Stars(Photos[i])))]_vars

\* C7: a photo from a file with no embedded preview is never COMPLETED, is not
\* selected once FAILED, and is in no export.
C7_NoPreviewFailedUnselectedUnexported ==
    \A i \in DOMAIN Photos :
        Photos[i].file.content = "none" =>
            /\ Photos[i].status # "COMPLETED"
            /\ Photos[i].status = "FAILED" => ~Photos[i].selected
            /\ \A j \in DOMAIN zip : zip[j].id # Photos[i].id

\* C8: at most one photo is PROCESSING, COMPRESSING or ANALYZING and at most one
\* analyzePhoto call is in flight.
C8_OneAtATime ==
    /\ Cardinality({i \in DOMAIN Photos : Photos[i].status \in Busy}) <= 1
    /\ InFlight <= 1

\* C9: no analyzePhoto call starts after an earlier call has returned unless a
\* delay started after that return has elapsed.
C9_DelayBetweenCalls ==
    [][InFlight' > InFlight => rest # "ended"]_vars

\* the step marks photo i FAILED in its catch block (the photos are the same ones)
Fails(i) ==
    /\ activeProject.open /\ activeProject'.open
    /\ DOMAIN Photos = DOMAIN activeProject'.photos
    /\ \A j \in DOMAIN Photos : Photos[j].id = activeProject'.photos[j].id
    /\ Photos[i].status # "FAILED"
    /\ activeProject'.photos[i].status = "FAILED"

\* the work after photo id is still there after the step
WorkGoesOn(id) ==
    IF app = "Q"
    THEN queue # <<>> /\ Head(queue).id = id /\ queue' = Tail(queue) /\ ~isProcessing'
    ELSE /\ DOMAIN runs' = DOMAIN runs
         /\ \A k \in DOMAIN runs :
               IF runs[k].i \in DOMAIN runs[k].batch /\ runs[k].batch[runs[k].i] = id
               THEN /\ runs'[k].batch = runs[k].batch
                    /\ runs'[k].files = runs[k].files
                    /\ runs'[k].i = runs[k].i
                    /\ runs'[k].pc = IF app = "L4" /\ runs[k].i = Len(runs[k].batch)
                                     THEN "closing" ELSE "delay"
               ELSE runs'[k] = [runs[k] EXCEPT !.fresh = runs'[k].fresh]

Queued(id) == \E i \in DOMAIN queue : queue[i].id = id

\* photo id is shown as COMPLETED or FAILED
Settled(id) ==
    \E i \in DOMAIN Photos :
        Photos[i].id = id /\ Photos[i].status \in {"COMPLETED", "FAILED"}

\* C20: in the queue variant, under fair scheduling, every photo that is put in the
\* queue is COMPLETED or FAILED at some later time and the queue becomes empty,
\* whatever the user drops, rates, toggles or closes in between.
C20_QueueDrains ==
    /\ (queue # <<>>) ~> (queue = <<>>)
    /\ \A id \in 1..MaxPhotos : Queued(id) ~> Settled(id)

\* a rate-limit or overload error: status 429 or 503, or a message that names one
Transient(e) ==
    e.status \in {429, 503} \/ includes(e, "429") \/ includes(e, "503")

\* C19: the failed attempt number i of a call is followed by a wait and another
\* attempt exactly when its error is transient (429 or 503) and i is below
\* MAX_ATTEMPTS; after any other failure the call returns with no wait.
C19_RetryOnlyTransient ==
    svc \in Retrying =>
        \A i \in 1..Len(caught) :
            (i <= Len(waits) \/ apc = "returned") =>
                (i <= Len(waits) <=> (Transient(caught[i]) /\ i < MAX_ATTEMPTS(svc)))

\* a reply that is plain JSON with every field and a numeric rating
ValidReply(rp) ==
    /\ rp.kind = "object" /\ ~rp.fenced
    /\ \A f \in Fields : rp.obj[f] \notin {Undefined, Null}
    /\ rp.obj["rating"].t = "number"

\* the attempts before the last failed with errors the version retries and the
\* last attempt got a valid reply
RetriedThenValid ==
    /\ svc \in Retrying /\ apc = "returned"
    /\ Len(caught) = entered - 1
    /\ \A i \in 1..Len(caught) : isRetryable(svc, caught[i])
    /\ ValidReply(reply)

\* C23: when attempts 1..k-1 failed with retryable errors and attempt k, k at most
\* MAX_ATTEMPTS, got a valid reply, analyzePhoto returns the analysis of that reply
\* and not the sentinel, after k attempts, k model calls and k-1 waits.
C23_RetrySucceeds ==
    RetriedThenValid =>
        /\ result = reply.obj
        /\ ~IsFailureObject(result)
        /\ entered <= MAX_ATTEMPTS(svc)
        /\ calls = entered
        /\ Len(waits) = entered - 1

\* success at the third and last attempt of part_001
C23_Witness ==
    /\ RetriedThenValid
    /\ svc = "P1" /\ entered = 3 /\ Len(waits) = 2
    /\ reply.obj["rating"] = Num(4) /\ result["rating"] = Num(4)

\* C24: the wait after failed attempt k is at least 2^k * 1000 ms and less than
\* 2^k * 1000 + 1000 ms in the jitter version and 2000 * k ms in the fixed versions,
\* and each wait of a call is strictly longer than the one before it.
C24_WaitsGrow ==
    svc \in Retrying =>
        \A k \in DOMAIN waits :
            /\ IF svc = "G5"
               THEN /\ k < 5
                    /\ waits[k] >= (2 ^ k) * 1000
                    /\ waits[k] < (2 ^ k) * 1000 + 1000
               ELSE waits[k] = 2000 * k
            /\ k > 1 => waits[k] > waits[k - 1]

\* the jitter version has waited four times, the longest jitter first and the
\* shortest next
C24_Witness ==
    /\ svc = "G5" /\ Len(waits) = 4
    /\ waits[1] = 2999 /\ waits[2] = 4000 /\ waits[4] >= 16000

\* the statuses of the PhotoMission type
Statuses == {"PENDING", "PROCESSING", "COMPLETED", "FAILED"}

\* the status changes of the claimed order; PENDING to FAILED is the queue
\* variant's PROCESSING and FAILED updates applied in one render
StatusOrder ==
    { <<"PENDING", "PROCESSING">>, <<"PROCESSING", "COMPLETED">>,
      <<"PROCESSING", "FAILED">>, <<"PENDING", "FAILED">> }

\* C16: every photo's status is PENDING, PROCESSING, COMPLETED or FAILED, and a
\* step changes it only from PENDING to PROCESSING or from PROCESSING to COMPLETED
\* or FAILED; a COMPLETED or FAILED photo keeps its status.
C16_StatusOnlyForward ==
    [][/\ \A j \in DOMAIN activeProject'.photos :
             activeProject'.photos[j].status \in Statuses
       /\ \A i \in DOMAIN Photos : \A j \in DOMAIN activeProject'.photos :
             Photos[i].id = activeProject'.photos[j].id =>
                 \/ activeProject'.photos[j].status = Photos[i].status
                 \/ <<Photos[i].status, activeProject'.photos[j].status>> \in StatusOrder]_vars

\* C17: a photo's analysis is set once, to a value the model call returned; after
\* that only its rating changes, and only in an onRate step on that photo.
C17_AnalysisSetOnce ==
    [][\A i \in DOMAIN Photos : \A j \in DOMAIN activeProject'.photos :
          Photos[i].id = activeProject'.photos[j].id =>
              LET old == Photos[i].analysis
                  new == activeProject'.photos[j].analysis
              IN  IF old = <<>>
                  THEN new = <<>> \/ new[1] \in AppReturns
                  ELSE /\ new # <<>>
                       /\ \A f \in Fields \ {"rating"} : new[1][f] = old[1][f]
                       /\ new[1]["rating"] # old[1]["rating"] =>
                             \E r \in ManualRatings : Rate(Photos[i].id, r)]_vars

\* C21: the step of processFiles that writes the project only appends the new
\* PENDING photos: every photo the project holds keeps its place, status, analysis,
\* rating and selected flag, whatever happened while the extraction was awaited.
C21_IngestOnlyAppends ==
    [][(\E k \in 1..MaxPhotos : IngestCommit(k)) =>
          \A i \in DOMAIN Photos :
              /\ i \in DOMAIN activeProject'.photos
              /\ activeProject'.photos[i] = Photos[i]]_vars

\* the processNext runs that hold a photo before their finally block
Working(rs) ==
    { k \in DOMAIN rs : rs[k].kind = "next" /\ rs[k].pc \in {"prepare", "analyze"} }

\* the ids of the photos in a queue, in order
QueueIds(q) == [i \in DOMAIN q |-> q[i].id]

\* C22: in the queue variant the photo in work is the head of the queue and there
\* is one at most; a step appends the photos of one finished ingest behind the
\* waiting ones, or removes the head in the step that ends its own processing, or
\* leaves the queue alone; no photo is in the queue twice or enters it again.
C22_QueueIsFifo ==
    [][app = "Q" =>
        /\ Cardinality(Working(runs')) <= 1
        /\ \A k \in Working(runs') :
              queue' # <<>> /\ runs'[k].batch[1] = Head(queue').id
        /\ \A i, j \in DOMAIN queue' : queue'[i].id = queue'[j].id => i = j
        /\ \A k \in DOMAIN runs' : \A i \in DOMAIN queue' :
              runs'[k].pc = "ingest" =>
                  \A b \in DOMAIN runs'[k].batch : runs'[k].batch[b] # queue'[i].id
        /\ \/ queue' = queue
           \/ /\ Len(queue') > Len(queue)
              /\ SubSeq(queue', 1, Len(queue)) = queue
              /\ \E k \in DOMAIN runs :
                    /\ runs[k].pc = "ingest"
                    /\ QueueIds(SubSeq(queue', Len(queue) + 1, Len(queue'))) = runs[k].batch
           \/ /\ queue # <<>>
              /\ queue' = Tail(queue)
              /\ \/ \E k \in Working(runs) :
                       /\ runs[k].batch[1] = Head(queue).id
                       /\ Working(runs') = {}
                 \/ /\ Working(runs) = {}
                    /\ ~HasPreview(Head(queue).file)]_vars

\* the first photo of the queue is done and the second, dropped while the first
\* was in work or before, is in work as the head of what is left
C22_Witness ==
    /\ app = "Q"
    /\ Len(queue) = 1
    /\ Working(runs) # {}
    /\ \E i \in DOMAIN Photos : Photos[i].status = "COMPLETED"
    /\ \E i \in DOMAIN Photos :
          Photos[i].status = "PROCESSING" /\ Photos[i].id = Head(queue).id

\* C28: the export writes a sidecar for a photo exactly when the photo is COMPLETED
\* at that time, whatever its rating; PENDING, PROCESSING and FAILED photos get none.
C28_ExportedIffCompleted ==
    [][handleExportXMP =>
          { zip'[z].id : z \in DOMAIN zip' } =
          { Photos[i].id : i \in { j \in DOMAIN Photos : Photos[j].status = "COMPLETED" } }]_vars

\* C29: the zip.file calls of one export have pairwise distinct entry names: no
\* sidecar of the archive is overwritten by the sidecar of another photo.
C29_OneSidecarPerPhoto ==
    \A y, z \in DOMAIN zip : zip[y].entry = zip[z].entry => y = z

\* C30: every photo whose analysis is set, whatever its status, carries a numeric
\* rating, a keywords list, a caption string and the seven tonal numbers.
C30_AnalysisIsComplete ==
    \A i \in DOMAIN Photos :
        Photos[i].analysis # <<>> =>
            LET a == Photos[i].analysis[1] IN
            /\ a["rating"].t = "number"
            /\ a["keywords"].t = "array"
            /\ a["caption"].t = "string"
            /\ \A f \in TonalFields : a[f].t = "number"

(***************************************************************************)
(* Properties of the extraction step, checked under SpecExtract.           *)
(***************************************************************************)
\* the places in tried of the preview strategies (place 1 is the parse)
StrategyCalls == {i \in DOMAIN tried : tried[i][1] # "parse"}

\* the strategy whose bytes the waterfall should return, "null" when none gave any
FirstYield ==
    IF \E i \in StrategyCalls : tried[i][2] = "value"
    THEN tried[CHOOSE i \in StrategyCalls :
                  /\ tried[i][2] = "value"
                  /\ \A j \in StrategyCalls : tried[j][2] = "value" => i <= j][1]
    ELSE "null"

\* C11: the extraction step never rejects and never stops half way; its result
\* carries metadata values, and no preview when no strategy gave bytes.
C11_ExtractionNeverThrows ==
    /\ epc # "rejected"
    /\ epc \in {"parse", "waterfall"} => ENABLED ExtractNext
    /\ epc = "done" =>
          /\ extracted.meta \in {"dash", "fallback", "exif"}
          /\ extracted.preview \in {"null", "preview", "thumbnail", "scan", "thumbnailUrl", "objectURL"}
          /\ FirstYield = "null" => extracted.preview = "null"

\* the parse and two strategies threw, the third found nothing
C11_Witness ==
    /\ exv = "Q"
    /\ epc = "done"
    /\ tried = << <<"parse", "throws">>, <<"preview", "throws">>,
                  <<"thumbnail", "nothing">>, <<"scan", "throws">> >>
    /\ extracted = [preview |-> "null", meta |-> "dash"]

\* C12: when the EXIF parse throws, the preview strategies are still called, the
\* preview they find is returned, and the metadata is a placeholder record.
C12_ParseFailureKeepsPreview ==
    (epc = "done" /\ tried # <<>> /\ tried[1] = <<"parse", "throws">>) =>
        /\ StrategyCalls # {}
        /\ extracted.preview = FirstYield
        /\ extracted.meta \in {"dash", "fallback"}

\* the versions with the waterfall of three strategies
Waterfall == {"Q", "L3", "LA"}

C14_AtMost1024 ==
    encoded.state = "resolved" => (encoded.width <= 1024 /\ encoded.height <= 1024)

\* a 6000 x 1025 image brought down to 1024 on its long side
C14_Witness ==
    /\ sanv = "L3"
    /\ img = [width |-> 6000, height |-> 1025]
    /\ encoded.state = "resolved"
    /\ encoded.width = 1024
    /\ encoded.height < 1024

\* the two sides of the image after the downscale to 1024
Fitted == [width |-> ScaleDown(img.width, Max(img.width, img.height)),
           height |-> ScaleDown(img.height, Max(img.width, img.height))]

\* C15: for orientation 5, 6, 7 or 8 the encoded canvas has the image's width and
\* height swapped, for orientation 1..4 it has them as they are.
C15_QuarterTurnsSwapSides ==
    (sanv = "Q" /\ encoded.state = "resolved") =>
        IF orientation \in 5..8
        THEN encoded.width = Fitted.height /\ encoded.height = Fitted.width
        ELSE encoded.width = Fitted.width /\ encoded.height = Fitted.height

\* the canvas has the sides ew, eh of a w x h image scaled by one factor, each
\* side within one pixel of its exact value
SameShape(ew, eh, w, h) ==
    LET d == ew * h - eh * w
    IN  d <= Max(w, h) /\ -d <= Max(w, h)

\* C27: sanitizeAndCompress only downscales: an image at most 1024 wide and at
\* most 1024 high is encoded at its own size (its sides swapped or not), and every
\* encoded canvas keeps the image's aspect ratio up to rounding.
C27_OnlyDownscales ==
    encoded.state = "resolved" =>
        /\ (img.width <= MAX_SIZE /\ img.height <= MAX_SIZE) =>
              \/ encoded.width = img.width /\ encoded.height = img.height
              \/ encoded.width = img.height /\ encoded.height = img.width
        /\ \/ SameShape(encoded.width, encoded.height, img.width, img.height)
           \/ SameShape(encoded.width, encoded.height, img.height, img.width)

(***************************************************************************)
(* Properties of the zip entry names, checked under SpecName.              *)
(***************************************************************************)

\* the name with its final extension removed; a name with no dot is used whole,
\* and a name whose only dot is in front may count as having no extension
Stems(name) ==
    IF Len(name) = 1 THEN {name}
    ELSE {SubSeq(name, 1, Len(name) - 1)}
         \cup (IF Len(name) = 2 /\ name[1] = "" THEN {name} ELSE {})

\* C18: the name of a zip entry is the photo's file name with its final extension
\* removed, followed by ".xmp"; a name with several dots loses only the last piece.
C18_EntryKeepsAllButExtension ==
    entry \notin {NoEntry, <<"idle">>} =>
        \E stem \in Stems(fname) : entry = Append(stem, "xmp")

(***************************************************************************)
(* Properties of the raw byte scan, checked under SpecScan.                *)
(***************************************************************************)

\* the offsets of the scanned prefix at which FF D8 FF stands
Markers(buffer) ==
    { i \in 0..(Len(buffer) - 3) :
        buffer[i + 1] = 255 /\ buffer[i + 2] = 216 /\ buffer[i + 3] = 255 }

C26_ReadsInsideBuffer ==
    \A offset \in reads : offset < Len(Prefix(bytes))

====
